---- MODULE Spec2Model ----
(***************************************************************************)
(* A model of pyro/distributions/torch.py: the Pyro wrappers around the    *)
(* torch.distributions classes.                                            *)
(*                                                                         *)
(* Tensors are records [shape, data]: shape is a sequence of dimension     *)
(* sizes and data maps every index tuple (0-based entries) to an integer.  *)
(***************************************************************************)
EXTENDS Integers, Sequences, FiniteSets, TLC

VARIABLES
    heap,       \* Categorical instances by process-local identifier
    value,      \* the tensor the caller of Categorical.log_prob holds
    last,       \* the last Categorical.log_prob call and what it returned
    binom,      \* the Binomial instance being sampled
    sample,     \* the last Binomial.sample call and what it returned
    dists,      \* the operands of conjugate_update (immutable values)
    calls,      \* the conjugate_update calls made and what they returned
    objs,       \* mutable instances by reference: expand and _validate_args
    ghost,      \* per instance of objs: its state at birth and its ancestor
    done,       \* the last expand call or _validate_args write on objs
    catalog,    \* torch.distributions.__dict__.items(), in order
    pc,         \* how many catalog entries the registration loop has done
    namespace,  \* locals() of the module: name -> class
    all         \* __all__

catVars == <<heap, value, last>>
binVars == <<binom, sample>>
conjVars == <<dists, calls>>
objVars == <<objs, ghost, done>>
regVars == <<catalog, pc, namespace, all>>
vars == <<heap, value, last, binom, sample, dists, calls, objs, ghost, done,
          catalog, pc, namespace, all>>
nonCatVars == <<binVars, conjVars, objVars, regVars>>
nonBinVars == <<catVars, conjVars, objVars, regVars>>
nonConjVars == <<catVars, binVars, objVars, regVars>>
nonObjVars == <<catVars, binVars, conjVars, regVars>>
nonRegVars == <<catVars, binVars, conjVars, objVars>>

(***************************************************************************)
(* Bounds                                                                  *)
(***************************************************************************)
MaxAddr == 2    \* process-local object identifiers 1..MaxAddr
MaxRank == 2    \* largest batch rank of a Categorical
MaxDim == 2     \* largest size of one batch dimension
MaxK == 2       \* largest number of categories
MaxCount == 3   \* largest total_count of a Binomial
ProbDen == 4    \* probabilities are the fractions 0/ProbDen .. ProbDen/ProbDen
MaxThresh == 3  \* largest finite approx_sample_thresh
MaxDraw == 4    \* largest Poisson draw
MaxConc == 2    \* largest concentration or rate of a conjugate operand
MaxObjs == 3    \* largest number of instances held by reference
MaxExtra == 3   \* catalog names beyond Distribution and the hand-written classes

(***************************************************************************)
(* Tensor helpers (the torch operations the module calls)                  *)
(***************************************************************************)
Front(s) == SubSeq(s, 1, Len(s) - 1)

Last(s) == s[Len(s)]

RECURSIVE Numel(_)
Numel(shape) == IF shape = <<>> THEN 1 ELSE Head(shape) * Numel(Tail(shape))

RECURSIVE Indices(_)
Indices(shape) ==
    IF shape = <<>> THEN {<<>>}
    ELSE {<<i>> \o r : i \in 0..(Head(shape) - 1), r \in Indices(Tail(shape))}

\* row-major offset of an index tuple, and its inverse
RECURSIVE Flat(_, _)
Flat(shape, idx) ==
    IF shape = <<>> THEN 0
    ELSE Head(idx) * Numel(Tail(shape)) + Flat(Tail(shape), Tail(idx))

RECURSIVE Unflat(_, _)
Unflat(shape, n) ==
    IF shape = <<>> THEN <<>>
    ELSE <<n \div Numel(Tail(shape))>> \o Unflat(Tail(shape), n % Numel(Tail(shape)))

Tensor(shape, f(_)) == [shape |-> shape, data |-> [i \in Indices(shape) |-> f(i)]]

\* tensor.reshape(newshape), element counts equal
Reshape(t, newshape) ==
    Tensor(newshape, LAMBDA i : t.data[Unflat(t.shape, Flat(newshape, i))])

Swap(s, a, b) ==
    [i \in 1..Len(s) |-> IF i = a THEN s[b] ELSE IF i = b THEN s[a] ELSE s[i]]

\* position (1-based) of the possibly negative torch dimension d in a rank-r tensor
Pos(d, r) == IF d < 0 THEN d + r + 1 ELSE d + 1

\* tensor.transpose(d0, d1)
Transpose(t, d0, d1) ==
    LET a == Pos(d0, Len(t.shape))
        b == Pos(d1, Len(t.shape))
    IN  Tensor(Swap(t.shape, a, b), LAMBDA i : t.data[Swap(i, a, b)])

\* tensor.squeeze(-1): drops the last dimension when it has size 1
SqueezeLast(t) ==
    IF t.shape # <<>> /\ Last(t.shape) = 1
    THEN Tensor(Front(t.shape), LAMBDA i : t.data[i \o <<0>>])
    ELSE t

\* tensor.unsqueeze(-1)
UnsqueezeLast(t) == Tensor(t.shape \o <<1>>, LAMBDA i : t.data[Front(i)])

Max(a, b) == IF a >= b THEN a ELSE b

\* size of dimension p (1-based) of shape s once left-padded with ones to rank r
Padded(s, r, p) == IF p <= r - Len(s) THEN 1 ELSE s[p - (r - Len(s))]

Broadcastable(s1, s2) ==
    LET r == Max(Len(s1), Len(s2))
    IN  \A p \in 1..r :
            \/ Padded(s1, r, p) = Padded(s2, r, p)
            \/ Padded(s1, r, p) = 1
            \/ Padded(s2, r, p) = 1

BroadcastShape(s1, s2) ==
    LET r == Max(Len(s1), Len(s2))
    IN  [p \in 1..r |-> IF Padded(s1, r, p) = 1 THEN Padded(s2, r, p)
                        ELSE Padded(s1, r, p)]

\* tensor.expand(shape) of a tensor whose shape broadcasts to shape
BroadcastTo(t, shape) ==
    LET r == Len(shape)
        k == Len(t.shape)
    IN  Tensor(shape, LAMBDA i :
            t.data[[p \in 1..k |-> IF t.shape[p] = 1 THEN 0 ELSE i[p + (r - k)]]])

\* input.gather(-1, index), index of the input's shape but for a last size of 1
GatherLast(input, index) ==
    Tensor(index.shape, LAMBDA i : input.data[Front(i) \o <<index.data[i]>>])

GatherInRange(input, index) ==
    \A i \in Indices(index.shape) :
        index.data[i] >= 0 /\ index.data[i] < Last(input.shape)

\* index[..., :1]
FirstOfLast(t) ==
    Tensor(Front(t.shape) \o <<1>>, LAMBDA i : t.data[i])

(***************************************************************************)
(* Categorical: log_prob fast path and enumerate_support tagging           *)
(***************************************************************************)
NoObj == [kind |-> "none"]

NoValue == [kind |-> "none"]

NoCall == [kind |-> "none"]

NoTag == 0    \* getattr(value, '_pyro_categorical_support', None) is None

Addrs == 1..MaxAddr

\* batch shapes of the Categoricals of the fast-path specification
BatchShapes == UNION {[1..n -> 1..MaxDim] : n \in 0..MaxRank}

\* batch shapes of the Categoricals of the identifier specification
IdShapes == {<<>>, <<2>>}

Categorical(bs, K, va) ==
    [kind |-> "Categorical", batch_shape |-> bs, K |-> K, validate_args |-> va]

\* self.logits, of shape batch_shape + (K,); every entry is labelled by its
\* own offset, so that an operation that moves entries changes the tensor
Logits(d) ==
    LET shape == d.batch_shape \o <<d.K>>
    IN  Tensor(shape, LAMBDA i : Flat(shape, i))

Ones(n) == [p \in 1..n |-> 1]

\* torch.distributions.Categorical.enumerate_support
TorchEnumerateSupport(d, expand) ==
    LET v == Tensor(<<d.K>> \o Ones(Len(d.batch_shape)), LAMBDA i : Head(i))
    IN  IF expand THEN BroadcastTo(v, <<d.K>> \o d.batch_shape) ELSE v

\* Distribution._validate_sample for a Categorical (event_shape = ())
ValidateSample(d, v) ==
    LET n == IF Len(v.shape) <= Len(d.batch_shape) THEN Len(v.shape)
             ELSE Len(d.batch_shape)
    IN  /\ \A j \in 1..n :
              LET i == v.shape[Len(v.shape) - j + 1]
                  e == d.batch_shape[Len(d.batch_shape) - j + 1]
              IN  i = 1 \/ e = 1 \/ i = e
        /\ \A i \in Indices(v.shape) : v.data[i] >= 0 /\ v.data[i] <= d.K - 1

\* torch.distributions.Categorical.log_prob: the generic gather-based path
TorchLogProb(d, v) ==
    LET logits == Logits(d)
        v1 == UnsqueezeLast(v)
        shape == BroadcastShape(v1.shape, logits.shape)
        index == FirstOfLast(BroadcastTo(v1, shape))
        log_pmf == BroadcastTo(logits, shape)
    IN  IF d.validate_args /\ ~ValidateSample(d, v)
        THEN [outcome |-> "ValueError"]
        ELSE IF ~Broadcastable(v1.shape, logits.shape)
        THEN [outcome |-> "RuntimeError"]
        ELSE IF ~GatherInRange(log_pmf, index)
        THEN [outcome |-> "RuntimeError"]
        ELSE [outcome |-> "ok", result |-> SqueezeLast(GatherLast(log_pmf, index))]

\* a faulty variant of FastResult: the leading axis is dropped and the category axis
\* is left where it was
FastResultNoTranspose(logits, vdim) == Reshape(logits, Tail(logits.shape))

\* logits.transpose(-1 - value.dim(), -1).squeeze(-1)
FastResult(logits, vdim) == SqueezeLast(Transpose(logits, -1 - vdim, -1))

\* Categorical.log_prob, the branch taken for a tagged value
FastLogProb(d, v, tracing) ==
    LET vdim == Len(v.shape)
        raw == Logits(d)
        logits == IF Len(raw.shape) <= vdim
                  THEN Reshape(raw, Ones(1 + vdim - Len(raw.shape)) \o raw.shape)
                  ELSE raw
    IN  IF ~tracing /\ d.validate_args /\ ~ValidateSample(d, v)
        THEN [outcome |-> "ValueError"]
        ELSE IF ~tracing /\ vdim = 0
        THEN [outcome |-> "IndexError"]
        ELSE IF ~tracing /\ v.shape[1] # Last(raw.shape)
        THEN [outcome |-> "AssertionError", assertion |-> 1]
        ELSE IF ~tracing /\ logits.shape[Pos(-1 - vdim, Len(logits.shape))] # 1
        THEN [outcome |-> "AssertionError", assertion |-> 2]
        ELSE [outcome |-> "ok", result |-> FastResult(logits, vdim)]

\* the path Categorical.log_prob takes for value v on the instance at addr
LogProbPath(addr, v) == IF v.tag = addr THEN "fast" ELSE "generic"

Construct(a, bs, K, va) ==
    /\ heap[a] = NoObj
    /\ heap' = [heap EXCEPT ![a] = Categorical(bs, K, va)]
    /\ last' = NoCall
    /\ UNCHANGED value
    /\ UNCHANGED nonCatVars

\* the instance at address a is reclaimed; the address becomes free again.
\* origin (a ghost field) stops naming an instance once that instance is gone
Release(a) ==
    /\ heap[a] # NoObj
    /\ heap' = [heap EXCEPT ![a] = NoObj]
    /\ value' = IF value # NoValue /\ value.origin = a
                THEN [value EXCEPT !.origin = 0] ELSE value
    /\ last' = NoCall
    /\ UNCHANGED nonCatVars

EnumerateSupport(a, expand) ==
    /\ heap[a] # NoObj
    /\ LET result == TorchEnumerateSupport(heap[a], expand)
       IN  value' = [kind |-> "tensor", shape |-> result.shape, data |-> result.data,
                     tag |-> IF ~expand THEN a ELSE NoTag,
                     origin |-> a, expand |-> expand]
    /\ last' = NoCall
    /\ UNCHANGED heap
    /\ UNCHANGED nonCatVars

\* the caller builds an integer tensor of its own: every entry is c
UserValue(shape, c) ==
    /\ LET t == Tensor(shape, LAMBDA i : c)
       IN  value' = [kind |-> "tensor", shape |-> t.shape, data |-> t.data,
                     tag |-> NoTag, origin |-> 0, expand |-> FALSE]
    /\ last' = NoCall
    /\ UNCHANGED heap
    /\ UNCHANGED nonCatVars

CallLogProb(a, tracing) ==
    /\ heap[a] # NoObj
    /\ value # NoValue
    /\ LET path == LogProbPath(a, value)
           r == IF path = "fast" THEN FastLogProb(heap[a], value, tracing)
                ELSE TorchLogProb(heap[a], value)
       IN  last' = [kind |-> "log_prob", self |-> a, tracing |-> tracing,
                    path |-> path, ret |-> r]
    /\ UNCHANGED <<heap, value>>
    /\ UNCHANGED nonCatVars

CatInit ==
    /\ heap = [a \in Addrs |-> NoObj]
    /\ value = NoValue
    /\ last = NoCall

\* the parts of the module a specification leaves alone
BinIdle ==
    /\ binom = NoObj
    /\ sample = NoCall

ConjIdle ==
    /\ dists = <<>>
    /\ calls = <<>>

ObjIdle ==
    /\ objs = <<>>
    /\ ghost = <<>>
    /\ done = NoCall

RegIdle ==
    /\ catalog = <<>>
    /\ pc = 0
    /\ namespace = <<>>
    /\ all = <<>>

\* instances come and go at any address: identifiers are reused
IdInit == CatInit /\ BinIdle /\ ConjIdle /\ ObjIdle /\ RegIdle

IdNext ==
    \/ \E a \in Addrs, bs \in IdShapes, K \in 1..MaxK, va \in BOOLEAN :
           Construct(a, bs, K, va)
    \/ \E a \in Addrs : Release(a)
    \/ \E a \in Addrs, expand \in BOOLEAN : EnumerateSupport(a, expand)
    \/ \E shape \in IdShapes, c \in 0..MaxK : UserValue(shape, c)
    \/ \E a \in Addrs, tracing \in BOOLEAN : CallLogProb(a, tracing)

SpecId == IdInit /\ [][IdNext]_vars

\* one instance at a time, of every batch shape
FastInit == CatInit /\ BinIdle /\ ConjIdle /\ ObjIdle /\ RegIdle

FastNext ==
    \/ \E bs \in BatchShapes, K \in 1..MaxK, va \in BOOLEAN : Construct(1, bs, K, va)
    \/ Release(1)
    \/ \E expand \in BOOLEAN : EnumerateSupport(1, expand)
    \/ \E tracing \in BOOLEAN : CallLogProb(1, tracing)

SpecFast == FastInit /\ [][FastNext]_vars

\* C1: whenever log_prob takes the reshape fast path, the value it was given
\* was returned by enumerate_support(expand=False) of the very instance
\* log_prob is called on (and so every other value takes the generic path).
C1_FastPathOnlyOwnSupport ==
    (last.kind = "log_prob" /\ last.path = "fast") =>
        (value.origin = last.self /\ ~value.expand)

\* C2: log_prob on the instance's own enumerate_support(expand=False) takes the
\* fast path, fails no assertion, and returns a tensor of shape
\* (K,) + batch_shape with the entries of the generic gather-based log_prob.
C2_FastPathMatchesGeneric ==
    (last.kind = "log_prob" /\ value.origin = last.self /\ ~value.expand) =>
        LET d == heap[last.self]
            generic == TorchLogProb(d, value)
        IN  /\ last.path = "fast"
            /\ last.ret.outcome = "ok"
            /\ last.ret.result.shape = <<d.K>> \o d.batch_shape
            /\ generic.outcome = "ok"
            /\ last.ret.result = generic.result

C2_Witness ==
    /\ last.kind = "log_prob"
    /\ value.origin = last.self
    /\ ~value.expand
    /\ ~last.tracing
    /\ last.path = "fast"
    /\ heap[last.self].validate_args
    /\ heap[last.self].K >= 2
    /\ Len(heap[last.self].batch_shape) = MaxRank
    /\ \E p \in 1..MaxRank : heap[last.self].batch_shape[p] >= 2

(***************************************************************************)
(* Binomial: construction and the approximate sampler                      *)
(***************************************************************************)
Min(a, b) == IF a <= b THEN a ELSE b

\* approx_sample_thresh: math.inf or the number n
Thresh(inf, n) == [inf |-> inf, n |-> n]

\* shapes of the total_count argument
CountShapes == {<<>>, <<2>>}

\* elementwise operation on two tensors, broadcast against each other
Zip(op(_, _), a, b) ==
    LET shape == BroadcastShape(a.shape, b.shape)
        x == BroadcastTo(a, shape)
        y == BroadcastTo(b, shape)
    IN  Tensor(shape, LAMBDA i : op(x.data[i], y.data[i]))

Entries(t) == {t.data[i] : i \in Indices(t.shape)}

\* tensor.min()
TensorMin(t) == CHOOSE m \in Entries(t) : \A x \in Entries(t) : m <= x

\* torch.round of the fraction num/den (den > 0): halves go to the even integer
Round(num, den) ==
    LET f == num \div den
        r == num - f * den
    IN  IF 2 * r < den THEN f
        ELSE IF 2 * r > den THEN f + 1
        ELSE IF f % 2 = 0 THEN f ELSE f + 1

\* Binomial.__init__: total_count and probs (numerators over ProbDen) are
\* broadcast against each other by torch.distributions.Binomial.__init__;
\* given is "probs" or "logits", the parameter the caller passed, and params
\* the parameters held in the instance's __dict__ (the other one is computed
\* and cached when first read); probs holds the probabilities in both cases
Binomial(total_count, probs, given, thresh, va) ==
    [kind |-> "Binomial",
     params |-> {given},
     total_count |-> BroadcastTo(total_count, BroadcastShape(total_count.shape, probs.shape)),
     probs |-> BroadcastTo(probs, BroadcastShape(total_count.shape, probs.shape)),
     batch_shape |-> BroadcastShape(total_count.shape, probs.shape),
     approx_sample_thresh |-> thresh,
     validate_args |-> va]

\* assert approx_sample_thresh >= 0
ThreshAccepted(thresh) == thresh.inf \/ thresh.n >= 0

\* a faulty variant of UsesApprox: the threshold is compared with the largest count
UsesApproxOnMax(b) ==
    /\ ~b.approx_sample_thresh.inf
    /\ \E x \in Entries(b.total_count) : b.approx_sample_thresh.n < x

\* the two conditions guarding the approximate branch of Binomial.sample
UsesApprox(b) ==
    /\ ~b.approx_sample_thresh.inf
    /\ b.approx_sample_thresh.n < TensorMin(b.total_count)

\* shift = (mean - variance).round() for one element, as a rational over
\* ProbDen^2: mean = min(p, q) * n, variance = p * q * n
Shift(n, p) ==
    LET q == ProbDen - p
        mean == Min(p, q) * ProbDen * n
        variance == p * q * n
    IN  Round(mean - variance, ProbDen * ProbDen)

\* a faulty variant of Clamp: the draw is not clamped
ClampMissing(result, total_count) == result

\* torch.min(result + shift, self.total_count) for one element
Clamp(result, total_count) == Min(result, total_count)

\* one element of the approximate sample, x the Poisson(variance) draw
ApproxElement(n, p, x) ==
    LET q == ProbDen - p
        result == Clamp(x + Shift(n, p), n)
    IN  IF p < q THEN result ELSE n - result

\* a Poisson(variance) draw x is possible: Poisson(0) is 0
PoissonDraw(n, p, x) == (p * (ProbDen - p) * n = 0) => x = 0

\* an exact Binomial(n, p) draw x is possible
ExactDraw(n, p, x) ==
    /\ x <= n
    /\ p = 0 => x = 0
    /\ p = ProbDen => x = n

BinomialInit(total_count, probs, given, thresh, va) ==
    /\ binom = NoObj
    /\ ThreshAccepted(thresh)
    /\ binom' = Binomial(total_count, probs, given, thresh, va)
    /\ sample' = NoCall
    /\ UNCHANGED nonBinVars

\* construction with a negative threshold fails: no instance
BinomialInitRejected(thresh) ==
    /\ binom = NoObj
    /\ ~ThreshAccepted(thresh)
    /\ sample' = [kind |-> "init", outcome |-> "AssertionError"]
    /\ UNCHANGED binom
    /\ UNCHANGED nonBinVars

\* Binomial.sample() with sample_shape = (); draws are the random numbers.
\* Both branches read self.probs, which caches it in the instance
Sample ==
    /\ binom # NoObj
    /\ \E draws \in [Indices(binom.batch_shape) -> 0..MaxDraw] :
       LET n == binom.total_count.data
           p == binom.probs.data
       IN  IF UsesApprox(binom)
           THEN /\ \A i \in DOMAIN draws : PoissonDraw(n[i], p[i], draws[i])
                /\ sample' = [kind |-> "sample", path |-> "approx",
                              shift |-> [i \in DOMAIN draws |-> Shift(n[i], p[i])],
                              result |-> [i \in DOMAIN draws |->
                                             ApproxElement(n[i], p[i], draws[i])]]
           ELSE /\ \A i \in DOMAIN draws : ExactDraw(n[i], p[i], draws[i])
                /\ sample' = [kind |-> "sample", path |-> "exact",
                              result |-> draws]
    /\ binom' = [binom EXCEPT !.params = @ \cup {"probs"}]
    /\ UNCHANGED nonBinVars

\* the instance is dropped and another one may be built
BinomialDrop ==
    /\ binom # NoObj
    /\ binom' = NoObj
    /\ sample' = NoCall
    /\ UNCHANGED nonBinVars

CountTensors == UNION {[shape : {s}, data : [Indices(s) -> 0..MaxCount]] : s \in CountShapes}

ProbTensors == [shape : {<<>>}, data : [Indices(<<>>) -> 0..ProbDen]]

Thresholds == {Thresh(TRUE, 0)} \cup {Thresh(FALSE, n) : n \in (-1)..MaxThresh}

BinInit == CatInit /\ BinIdle /\ ConjIdle /\ ObjIdle /\ RegIdle

BinNext ==
    \/ \E tc \in CountTensors, pr \in ProbTensors, given \in {"probs", "logits"},
          th \in Thresholds, va \in BOOLEAN :
           BinomialInit(tc, pr, given, th, va)
    \/ \E th \in Thresholds : BinomialInitRejected(th)
    \/ Sample
    \/ BinomialDrop

SpecBinomial == BinInit /\ [][BinNext]_vars

\* C3: sample takes the clamped-Poisson branch exactly when the threshold is
\* finite and strictly below every total_count of the batch; otherwise, and
\* always when the threshold is infinite, it takes the exact branch.
C3_ApproxIffThreshBelowMin ==
    sample.kind = "sample" =>
        /\ sample.path = "approx" <=>
               (/\ ~binom.approx_sample_thresh.inf
                /\ \A i \in Indices(binom.batch_shape) :
                       binom.approx_sample_thresh.n < binom.total_count.data[i])
        /\ sample.path # "approx" => sample.path = "exact"
        /\ binom.approx_sample_thresh.inf => sample.path = "exact"

C3_Witness ==
    /\ sample.kind = "sample"
    /\ sample.path = "approx"
    /\ \E i, j \in Indices(binom.batch_shape) :
           binom.total_count.data[i] < binom.total_count.data[j]

\* C4: on the approximate branch the shift and every returned element lie
\* between 0 and the element's total_count.
C4_ApproxSampleInRange ==
    (sample.kind = "sample" /\ sample.path = "approx") =>
        \A i \in Indices(binom.batch_shape) :
            /\ 0 <= sample.shift[i]
            /\ sample.shift[i] <= binom.total_count.data[i]
            /\ 0 <= sample.result[i]
            /\ sample.result[i] <= binom.total_count.data[i]

C4_Witness ==
    /\ sample.kind = "sample"
    /\ sample.path = "approx"
    /\ \E i \in Indices(binom.batch_shape) :
           /\ sample.shift[i] >= 1
           /\ 2 * binom.probs.data[i] >= ProbDen
           /\ sample.result[i] = 0
(***************************************************************************)
(* Conjugate updates: Beta, Dirichlet, Gamma, Independent                  *)
(*                                                                         *)
(* Concentrations and rates are positive integers, so that lgamma(n) is    *)
(* log((n-1)!) and log-normalizers are logarithms of positive rationals.   *)
(* Such a logarithm is kept exactly, as the exponent of every prime.       *)
(***************************************************************************)
LogPrimes == {p \in 2..(6 * MaxConc) : \A d \in 2..(p - 1) : p % d # 0}

RECURSIVE Vp(_, _)
Vp(n, p) == IF n % p = 0 THEN 1 + Vp(n \div p, p) ELSE 0

\* tensor.log() of the integer n >= 1
LogNat(n) == [p \in LogPrimes |-> Vp(n, p)]

LZero == [p \in LogPrimes |-> 0]

LAdd(a, b) == [p \in LogPrimes |-> a[p] + b[p]]

LSub(a, b) == [p \in LogPrimes |-> a[p] - b[p]]

LScale(a, k) == [p \in LogPrimes |-> a[p] * k]

RECURSIVE LogFact(_)
LogFact(k) == IF k <= 1 THEN LZero ELSE LAdd(LogNat(k), LogFact(k - 1))

\* tensor.lgamma() of the integer n >= 1
LGamma(n) == LogFact(n - 1)

Map(op(_), t) == Tensor(t.shape, LAMBDA i : op(t.data[i]))

Plus(a, b) == a + b

MinusOne(a) == a - 1

RECURSIVE FoldLast(_, _, _, _, _)
FoldLast(t, i, k, add(_, _), zero) ==
    IF k = 0 THEN zero
    ELSE add(FoldLast(t, i, k - 1, add, zero), t.data[i \o <<k - 1>>])

\* tensor.sum(-1)
SumLast(t, add(_, _), zero) ==
    Tensor(Front(t.shape), LAMBDA i : FoldLast(t, i, Last(t.shape), add, zero))

ConstTensor(shape, c) == Tensor(shape, LAMBDA i : c)

HasAttr(o, a) == a \in DOMAIN o

Beta(concentration1, concentration0) ==
    LET shape == BroadcastShape(concentration1.shape, concentration0.shape)
    IN  [kind |-> "Beta",
         concentration1 |-> BroadcastTo(concentration1, shape),
         concentration0 |-> BroadcastTo(concentration0, shape),
         batch_shape |-> shape]

Gamma(concentration, rate) ==
    LET shape == BroadcastShape(concentration.shape, rate.shape)
    IN  [kind |-> "Gamma",
         concentration |-> BroadcastTo(concentration, shape),
         rate |-> BroadcastTo(rate, shape),
         batch_shape |-> shape]

Dirichlet(concentration) ==
    [kind |-> "Dirichlet", concentration |-> concentration,
     batch_shape |-> Front(concentration.shape)]

Normal(loc, scale, va) ==
    LET shape == BroadcastShape(loc.shape, scale.shape)
    IN  [kind |-> "Normal", loc |-> BroadcastTo(loc, shape),
         scale |-> BroadcastTo(scale, shape), batch_shape |-> shape,
         validate_args |-> va]

\* torch.distributions.Independent.__init__, for n within the batch rank
Independent(base_dist, n) ==
    [kind |-> "Independent", base_dist |-> base_dist,
     reinterpreted_batch_ndims |-> n,
     batch_shape |-> SubSeq(base_dist.batch_shape, 1, Len(base_dist.batch_shape) - n)]

\* Beta.conjugate_update._log_normalizer
BetaLogNormalizer(d) ==
    Zip(LAMBDA x, y : LSub(LSub(LGamma(x + y), LGamma(x)), LGamma(y)),
        d.concentration1, d.concentration0)

\* a faulty variant of BetaPosterior: the unit offset is forgotten
BetaPosteriorNoOffset(self, other) ==
    Beta(Zip(Plus, self.concentration1, other.concentration1),
         Zip(Plus, self.concentration0, other.concentration0))

\* updated = Beta(concentration1, concentration0)
BetaPosterior(self, other) ==
    Beta(Map(MinusOne, Zip(Plus, self.concentration1, other.concentration1)),
         Map(MinusOne, Zip(Plus, self.concentration0, other.concentration0)))

\* a faulty variant of the assertions: any operand is accepted
AcceptsAny(other) == TRUE

\* assert isinstance(other, Beta)
BetaAccepts(other) == other.kind = "Beta"

\* _log_normalizer(self) + _log_normalizer(other) - _log_normalizer(updated)
LogNormalizer(ns, no, nu) == Zip(LSub, Zip(LAdd, ns, no), nu)

BetaConjugateUpdate(self, other) ==
    IF ~BetaAccepts(other) THEN [outcome |-> "AssertionError"]
    ELSE IF ~HasAttr(other, "concentration1") \/ ~HasAttr(other, "concentration0")
    THEN [outcome |-> "AttributeError"]
    ELSE LET updated == BetaPosterior(self, other)
         IN  [outcome |-> "ok", updated |-> updated,
              log_normalizer |-> LogNormalizer(BetaLogNormalizer(self),
                                               BetaLogNormalizer(other),
                                               BetaLogNormalizer(updated))]

\* Dirichlet.conjugate_update._log_normalizer
DirichletLogNormalizer(d) ==
    Zip(LSub, Map(LGamma, SumLast(d.concentration, Plus, 0)),
        SumLast(Map(LGamma, d.concentration), LAdd, LZero))

\* assert isinstance(other, Dirichlet)
DirichletAccepts(other) == other.kind = "Dirichlet"

DirichletConjugateUpdate(self, other) ==
    IF ~DirichletAccepts(other) THEN [outcome |-> "AssertionError"]
    ELSE IF ~HasAttr(other, "concentration") THEN [outcome |-> "AttributeError"]
    ELSE LET updated == Dirichlet(Map(MinusOne,
                            Zip(Plus, self.concentration, other.concentration)))
         IN  [outcome |-> "ok", updated |-> updated,
              log_normalizer |-> LogNormalizer(DirichletLogNormalizer(self),
                                               DirichletLogNormalizer(other),
                                               DirichletLogNormalizer(updated))]

\* Gamma.conjugate_update._log_normalizer
GammaLogNormalizer(d) ==
    Zip(LAMBDA r, c : LSub(LScale(LogNat(r), c), LGamma(c)), d.rate, d.concentration)

\* assert isinstance(other, Gamma)
GammaAccepts(other) == other.kind = "Gamma"

GammaConjugateUpdate(self, other) ==
    IF ~GammaAccepts(other) THEN [outcome |-> "AssertionError"]
    ELSE IF ~HasAttr(other, "concentration") \/ ~HasAttr(other, "rate")
    THEN [outcome |-> "AttributeError"]
    ELSE LET updated == Gamma(Map(MinusOne,
                                  Zip(Plus, self.concentration, other.concentration)),
                              Zip(Plus, self.rate, other.rate))
         IN  [outcome |-> "ok", updated |-> updated,
              log_normalizer |-> LogNormalizer(GammaLogNormalizer(self),
                                               GammaLogNormalizer(other),
                                               GammaLogNormalizer(updated))]

\* self.base_dist.conjugate_update: the method of the base's class
BaseConjugateUpdate(base, other) ==
    IF base.kind = "Beta" THEN BetaConjugateUpdate(base, other)
    ELSE IF base.kind = "Dirichlet" THEN DirichletConjugateUpdate(base, other)
    ELSE IF base.kind = "Gamma" THEN GammaConjugateUpdate(base, other)
    ELSE [outcome |-> "AttributeError"]

\* TorchDistributionMixin.to_event(n): n more (or, n < 0, fewer) trailing batch
\* dimensions are reinterpreted as event dimensions
ToEvent(d, n) ==
    LET base == IF d.kind = "Independent" THEN d.base_dist ELSE d
        total == n + (IF d.kind = "Independent" THEN d.reinterpreted_batch_ndims ELSE 0)
    IN  IF total = 0 THEN base
        ELSE IF total < 0 \/ total > Len(base.batch_shape)
        THEN [kind |-> "ValueError"]
        ELSE Independent(base, total)

\* pyro.distributions.util.sum_rightmost on a tensor of logarithms
RECURSIVE SumRightmost(_, _)
SumRightmost(t, n) ==
    IF n = 0 THEN t ELSE SumRightmost(SumLast(t, LAdd, LZero), n - 1)

\* the attribute Independent.conjugate_update reads for n
NdimsAttr == "reintepreted_batch_ndims"

IndependentConjugateUpdate(self, other) ==
    IF ~HasAttr(self, NdimsAttr) THEN [outcome |-> "AttributeError"]
    ELSE LET n == self[NdimsAttr]
             unwrapped == ToEvent(other, 0 - n)
             r == BaseConjugateUpdate(self.base_dist, unwrapped)
         IN  IF unwrapped.kind = "ValueError" THEN [outcome |-> "ValueError"]
             ELSE IF r.outcome # "ok" THEN r
             ELSE [outcome |-> "ok", updated |-> ToEvent(r.updated, n),
                   log_normalizer |-> SumRightmost(r.log_normalizer, n)]

ParamShapes == {<<>>, <<2>>}

Betas ==
    {Beta(ConstTensor(s, a), ConstTensor(s, b)) : s \in ParamShapes, a, b \in 1..MaxConc}

Gammas ==
    {Gamma(ConstTensor(s, a), ConstTensor(s, b)) : s \in ParamShapes, a, b \in 1..MaxConc}

Dirichlets ==
    {Dirichlet(Tensor(s \o <<2>>, LAMBDA i : IF Last(i) = 0 THEN a ELSE b)) :
        s \in ParamShapes, a, b \in 1..MaxConc}

Normals == {Normal(ConstTensor(<<2>>, 0), ConstTensor(<<2>>, 1), FALSE)}

Bases == Betas \cup Gammas \cup Dirichlets \cup Normals

Operands ==
    Bases \cup {Independent(b, n) : b \in {x \in Bases : x.batch_shape # <<>>}, n \in {1}}

CallRecord(self, other, ret) ==
    [self |-> self, other |-> other, before |-> dists, ret |-> ret]

BetaCall ==
    /\ dists[1].kind = "Beta"
    /\ calls' = <<CallRecord(dists[1], dists[2], BetaConjugateUpdate(dists[1], dists[2]))>>
    /\ UNCHANGED dists
    /\ UNCHANGED nonConjVars

DirichletCall ==
    /\ dists[1].kind = "Dirichlet"
    /\ calls' = <<CallRecord(dists[1], dists[2],
                             DirichletConjugateUpdate(dists[1], dists[2]))>>
    /\ UNCHANGED dists
    /\ UNCHANGED nonConjVars

GammaCall ==
    /\ dists[1].kind = "Gamma"
    /\ calls' = <<CallRecord(dists[1], dists[2], GammaConjugateUpdate(dists[1], dists[2]))>>
    /\ UNCHANGED dists
    /\ UNCHANGED nonConjVars

IndependentCall ==
    /\ dists[1].kind = "Independent"
    /\ calls' = <<CallRecord(dists[1], dists[2],
                             IndependentConjugateUpdate(dists[1], dists[2]))>>
    /\ UNCHANGED dists
    /\ UNCHANGED nonConjVars

ConjInit ==
    /\ dists \in {<<a, b>> : a, b \in Operands}
    /\ calls = <<>>
    /\ CatInit /\ BinIdle /\ ObjIdle /\ RegIdle

ConjNext == BetaCall \/ DirichletCall \/ GammaCall \/ IndependentCall

SpecConj == ConjInit /\ [][ConjNext]_vars

ConjFamilies == {"Beta", "Dirichlet", "Gamma"}

\* C5: Independent.conjugate_update, both operands wrapping the same conjugate
\* family with the same n, returns the base's conjugate update against the
\* un-reinterpreted other, re-wrapped with n, and the base log-normalizer
\* summed over its n rightmost dimensions.
C5_IndependentDelegates ==
    \A k \in DOMAIN calls :
        LET self == calls[k].self
            other == calls[k].other
        IN  (/\ self.kind = "Independent"
             /\ other.kind = "Independent"
             /\ self.base_dist.kind \in ConjFamilies
             /\ other.base_dist.kind = self.base_dist.kind
             /\ other.reinterpreted_batch_ndims = self.reinterpreted_batch_ndims) =>
                LET n == self.reinterpreted_batch_ndims
                    r == BaseConjugateUpdate(self.base_dist, ToEvent(other, 0 - n))
                IN  /\ calls[k].ret.outcome = "ok"
                    /\ calls[k].ret.updated = ToEvent(r.updated, n)
                    /\ calls[k].ret.log_normalizer = SumRightmost(r.log_normalizer, n)

\* C6: Beta, Gamma and Dirichlet conjugate_update with an operand of another
\* family fails with an assertion error, returns no pair, and leaves both
\* operands as they were.
C6_MismatchedFamilyFails ==
    \A k \in DOMAIN calls :
        (/\ calls[k].self.kind \in ConjFamilies
         /\ calls[k].other.kind # calls[k].self.kind) =>
            /\ calls[k].ret = [outcome |-> "AssertionError"]
            /\ dists = calls[k].before

C6_Witness ==
    /\ calls # <<>>
    /\ calls[1].self.kind = "Dirichlet"
    /\ calls[1].other.kind = "Gamma"
    /\ calls[1].ret.outcome = "AssertionError"

\* Associativity of Beta.conjugate_update: from the prior P = dists[1] and the
\* likelihoods L1 = dists[2], L2 = dists[3] the caller computes, in this order,
\* P.cu(L1), its posterior .cu(L2), L1.cu(L2) and P.cu(that posterior); every
\* posterior is appended to dists.
AssocPlan == <<<<1, 2>>, <<4, 3>>, <<2, 3>>, <<1, 6>>>>

BetaChainCall ==
    /\ Len(calls) < Len(AssocPlan)
    /\ LET self == dists[AssocPlan[Len(calls) + 1][1]]
           other == dists[AssocPlan[Len(calls) + 1][2]]
           ret == BetaConjugateUpdate(self, other)
       IN  /\ ret.outcome = "ok"
           /\ calls' = Append(calls, CallRecord(self, other, ret))
           /\ dists' = Append(dists, ret.updated)
    /\ UNCHANGED nonConjVars

AssocInit ==
    /\ dists \in {<<p, l1, l2>> : p, l1, l2 \in Betas}
    /\ calls = <<>>
    /\ CatInit /\ BinIdle /\ ObjIdle /\ RegIdle

AssocNext == BetaChainCall

SpecAssoc == AssocInit /\ [][AssocNext]_vars

\* C7: updating P with L1 and then with L2 gives the posterior of updating P
\* once with the posterior of L1.conjugate_update(L2), every concentration
\* being the sum of the three minus 2 (each update a + a' - 1), and the
\* log-normalizers add up: Z(P, L1) + Z(P+L1, L2) = Z(L1, L2) + Z(P, L1+L2).
C7_BetaUpdateAssociative ==
    Len(calls) = 4 =>
        LET seq == calls[2].ret.updated
            once == calls[4].ret.updated
            sum3(a, b, c) == Map(LAMBDA x : x - 2, Zip(Plus, Zip(Plus, a, b), c))
        IN  /\ seq.concentration1 = once.concentration1
            /\ seq.concentration0 = once.concentration0
            /\ seq.concentration1 = sum3(dists[1].concentration1, dists[2].concentration1,
                                         dists[3].concentration1)
            /\ seq.concentration0 = sum3(dists[1].concentration0, dists[2].concentration0,
                                         dists[3].concentration0)
            /\ Zip(LAdd, calls[1].ret.log_normalizer, calls[2].ret.log_normalizer)
                   = Zip(LAdd, calls[3].ret.log_normalizer, calls[4].ret.log_normalizer)

C7_Witness ==
    /\ Len(calls) = 4
    /\ dists[1].concentration1 # dists[2].concentration1
    /\ dists[2].concentration0 # dists[3].concentration0
    /\ dists[1].batch_shape # dists[3].batch_shape
    /\ \E i \in Indices(calls[2].ret.log_normalizer.shape) :
           calls[2].ret.log_normalizer.data[i] # LZero

(***************************************************************************)
(* expand: Uniform and Binomial.  Instances are held by reference: objs[i]  *)
(* is the instance with reference i.                                       *)
(***************************************************************************)
\* tensor.expand(shape) succeeds
Expandable(from, shape) ==
    /\ Len(shape) >= Len(from)
    /\ \A p \in 1..Len(shape) :
           Padded(from, Len(shape), p) = 1 \/ Padded(from, Len(shape), p) = shape[p]

\* Uniform.__init__
Uniform(low, high, va) ==
    LET shape == BroadcastShape(low.shape, high.shape)
    IN  [kind |-> "Uniform",
         unbroadcasted_low |-> low,
         unbroadcasted_high |-> high,
         low |-> BroadcastTo(low, shape),
         high |-> BroadcastTo(high, shape),
         batch_shape |-> shape,
         validate_args |-> va]

\* Uniform.support
UniformSupport(d) ==
    [kind |-> "interval", lower_bound |-> d.unbroadcasted_low,
     upper_bound |-> d.unbroadcasted_high]

\* torch.distributions.Uniform.expand
TorchUniformExpand(self, batch_shape) ==
    [self EXCEPT !.low = BroadcastTo(self.low, batch_shape),
                 !.high = BroadcastTo(self.high, batch_shape),
                 !.batch_shape = batch_shape]

\* a faulty variant of UniformExpand: the bounds kept are the broadcast ones
UniformExpandBroadcastBounds(self, batch_shape) ==
    LET new == TorchUniformExpand(self, batch_shape)
    IN  [new EXCEPT !.unbroadcasted_low = new.low,
                    !.unbroadcasted_high = new.high]

\* Uniform.expand, on a batch_shape the parameters expand to
UniformExpand(self, batch_shape) ==
    LET new == TorchUniformExpand(self, batch_shape)
    IN  [new EXCEPT !.unbroadcasted_low = self.unbroadcasted_low,
                    !.unbroadcasted_high = self.unbroadcasted_high]

\* Binomial.expand, on a batch_shape the parameters expand to
BinomialExpand(self, batch_shape) ==
    [kind |-> "Binomial",
     params |-> {x \in {"probs", "logits"} : x \in self.params},
     total_count |-> BroadcastTo(self.total_count, batch_shape),
     probs |-> BroadcastTo(self.probs, batch_shape),
     batch_shape |-> batch_shape,
     approx_sample_thresh |-> self.approx_sample_thresh,
     validate_args |-> self.validate_args]

Born(obj, root) == [born |-> obj, root |-> root]

UniformInit(low, high, va) ==
    /\ objs = <<>>
    /\ objs' = <<Uniform(low, high, va)>>
    /\ ghost' = <<Born(Uniform(low, high, va), 1)>>
    /\ done' = [kind |-> "init"]
    /\ UNCHANGED nonObjVars

BinomialInitRef(total_count, probs, given, thresh, va) ==
    /\ objs = <<>>
    /\ ThreshAccepted(thresh)
    /\ objs' = <<Binomial(total_count, probs, given, thresh, va)>>
    /\ ghost' = <<Born(Binomial(total_count, probs, given, thresh, va), 1)>>
    /\ done' = [kind |-> "init"]
    /\ UNCHANGED nonObjVars

\* objs[i].expand(batch_shape): a new instance, or the error tensor.expand raises
ExpandCall(i, batch_shape, expand(_, _)) ==
    /\ Len(objs) < MaxObjs
    /\ IF Expandable(objs[i].batch_shape, batch_shape)
       THEN /\ objs' = Append(objs, expand(objs[i], batch_shape))
            /\ ghost' = Append(ghost, Born(expand(objs[i], batch_shape), ghost[i].root))
            /\ done' = [kind |-> "expand", self |-> i, outcome |-> "ok"]
       ELSE /\ done' = [kind |-> "expand", self |-> i, outcome |-> "RuntimeError"]
            /\ UNCHANGED <<objs, ghost>>
    /\ UNCHANGED nonObjVars

UniformExpandCall(i, batch_shape) ==
    /\ objs[i].kind = "Uniform"
    /\ ExpandCall(i, batch_shape, UniformExpand)

BinomialExpandCall(i, batch_shape) ==
    /\ objs[i].kind = "Binomial"
    /\ ExpandCall(i, batch_shape, BinomialExpand)

BoundShapes == {<<>>, <<1>>, <<2>>}

ExpandShapes == {<<2>>, <<1, 2>>, <<2, 2>>, <<3>>}

ExpandInit == ObjIdle /\ CatInit /\ BinIdle /\ ConjIdle /\ RegIdle

ExpandNext ==
    \/ \E ls, hs \in BoundShapes, lo \in 0..1, hi \in 2..3, va \in BOOLEAN :
           UniformInit(ConstTensor(ls, lo), ConstTensor(hs, hi), va)
    \/ \E s \in CountShapes, given \in {"probs", "logits"},
          th \in {t \in Thresholds : ThreshAccepted(t)}, va \in BOOLEAN :
           BinomialInitRef(ConstTensor(s, MaxCount), ConstTensor(<<>>, 1), given, th, va)
    \/ \E i \in DOMAIN objs, shape \in ExpandShapes : UniformExpandCall(i, shape)
    \/ \E i \in DOMAIN objs, shape \in ExpandShapes : BinomialExpandCall(i, shape)

SpecExpand == ExpandInit /\ [][ExpandNext]_vars

\* C8: every instance obtained by one or more expand calls carries the
\* auxiliary state of the instance the chain started from -- a Uniform the
\* unbroadcast low/high its support is built from, a Binomial
\* approx_sample_thresh and the validation flag -- and no instance is modified
\* after its creation, so expand leaves its source as it was.
C8_ExpandKeepsAuxiliaryState ==
    \A i \in DOMAIN objs :
        LET d == objs[i]
            r == objs[ghost[i].root]
        IN  /\ d = ghost[i].born
            /\ d.kind = "Uniform" =>
                   /\ d.unbroadcasted_low = r.unbroadcasted_low
                   /\ d.unbroadcasted_high = r.unbroadcasted_high
                   /\ UniformSupport(d) = UniformSupport(r)
            /\ d.kind = "Binomial" =>
                   /\ d.approx_sample_thresh = r.approx_sample_thresh
                   /\ d.validate_args = r.validate_args

C8_Witness ==
    /\ Len(objs) >= 3
    /\ done = [kind |-> "expand", self |-> 2, outcome |-> "ok"]
    /\ ghost[3].root = 1
    /\ ghost[2].root = 1
    /\ objs[3].kind = "Uniform"
    /\ objs[3].batch_shape # objs[2].batch_shape
    /\ objs[3].low # objs[3].unbroadcasted_low
    /\ objs[3].validate_args

(***************************************************************************)
(* Independent._validate_args.  Here the wrapper holds the reference of    *)
(* its base (base_dist is an index of objs), so that a write through one   *)
(* reference is seen through the others.                                   *)
(***************************************************************************)
\* torch.distributions.Independent.__init__ on the instance with reference b
IndependentRef(os, b, n) ==
    [kind |-> "Independent", base_dist |-> b, reinterpreted_batch_ndims |-> n,
     batch_shape |-> SubSeq(os[b].batch_shape, 1, Len(os[b].batch_shape) - n)]

\* reading obj._validate_args: Independent's property getter returns
\* self.base_dist._validate_args, any other class reads its own attribute
RECURSIVE GetValidateArgs(_, _)
GetValidateArgs(os, i) ==
    IF os[i].kind = "Independent"
    THEN GetValidateArgs(os, os[i].base_dist)
    ELSE os[i].validate_args

\* a faulty variant of IndependentSetter: the wrapper keeps a flag of its own
IndependentSetOwn(os, i, v) == [os EXCEPT ![i] = [validate_args |-> v] @@ os[i]]

\* writing obj._validate_args = v: Independent's property setter assigns
\* self.base_dist._validate_args, any other class assigns its own attribute
RECURSIVE SetValidateArgs(_, _, _)
IndependentSetter(os, i, v) == SetValidateArgs(os, os[i].base_dist, v)

SetValidateArgs(os, i, v) ==
    IF os[i].kind = "Independent" THEN IndependentSetter(os, i, v)
    ELSE [os EXCEPT ![i].validate_args = v]

\* the instance a chain of wrappers ends in
RECURSIVE UltimateBase(_, _)
UltimateBase(os, i) ==
    IF os[i].kind = "Independent" THEN UltimateBase(os, os[i].base_dist) ELSE i

NormalInitRef(shape, va) ==
    /\ Len(objs) < MaxObjs
    /\ LET new == Normal(ConstTensor(shape, 0), ConstTensor(shape, 1), va)
       IN  /\ objs' = Append(objs, new)
           /\ ghost' = Append(ghost, Born(new, Len(objs) + 1))
    /\ done' = [kind |-> "init"]
    /\ UNCHANGED nonObjVars

\* Independent(objs[b], n, validate_args=va); va = "None" leaves the flag alone,
\* any other va is assigned to self._validate_args by Distribution.__init__
IndependentInit(b, n, va) ==
    /\ Len(objs) < MaxObjs
    /\ IF n > Len(objs[b].batch_shape)
       THEN /\ done' = [kind |-> "init", outcome |-> "ValueError"]
            /\ UNCHANGED <<objs, ghost>>
       ELSE LET new == IndependentRef(objs, b, n)
                os == Append(objs, new)
            IN  /\ objs' = IF va = "None" THEN os
                           ELSE SetValidateArgs(os, Len(os), va = "True")
                /\ ghost' = Append(ghost, Born(new, ghost[b].root))
                /\ done' = IF va = "None" THEN [kind |-> "init"]
                           ELSE [kind |-> "set", target |-> Len(os), value |-> (va = "True")]
    /\ UNCHANGED nonObjVars

\* objs[i]._validate_args = v
WriteValidateArgs(i, v) ==
    /\ objs' = SetValidateArgs(objs, i, v)
    /\ done' = [kind |-> "set", target |-> i, value |-> v]
    /\ UNCHANGED ghost
    /\ UNCHANGED nonObjVars

WrapShapes == {<<2>>, <<2, 2>>}

ValidateInit == ObjIdle /\ CatInit /\ BinIdle /\ ConjIdle /\ RegIdle

ValidateNext ==
    \/ \E shape \in WrapShapes, va \in BOOLEAN : NormalInitRef(shape, va)
    \/ \E b \in DOMAIN objs, n \in 0..3, va \in {"None", "True", "False"} :
           IndependentInit(b, n, va)
    \/ \E i \in DOMAIN objs, v \in BOOLEAN : WriteValidateArgs(i, v)

SpecValidate == ValidateInit /\ [][ValidateNext]_vars

\* C9: an Independent wrapper stores no validation flag of its own and reads
\* the flag of its base; after a write of the flag on a wrapper or on a base,
\* the written value is read from that instance and from every wrapper or
\* base it shares a base with.
C9_ValidateArgsDelegates ==
    /\ \A i \in DOMAIN objs :
           objs[i].kind = "Independent" =>
               /\ ~HasAttr(objs[i], "validate_args")
               /\ GetValidateArgs(objs, i) = GetValidateArgs(objs, objs[i].base_dist)
    /\ done.kind = "set" =>
           \A j \in DOMAIN objs :
               UltimateBase(objs, j) = UltimateBase(objs, done.target) =>
                   GetValidateArgs(objs, j) = done.value

C9_Witness ==
    /\ done.kind = "set"
    /\ Len(objs) = 3
    /\ objs[1].kind = "Normal"
    /\ objs[2].kind = "Independent" /\ objs[2].base_dist = 1
    /\ objs[3].kind = "Independent" /\ objs[3].base_dist = 2
    /\ done.target = 2
    /\ done.value # ghost[1].born.validate_args
    /\ objs[1].validate_args = done.value
    /\ GetValidateArgs(objs, 3) = done.value

(***************************************************************************)
(* The registration loop over torch.distributions.__dict__                 *)
(*                                                                         *)
(* A catalog entry is [name, kind, cls]: kind is "other" (not a type),     *)
(* "type" (a type that is no Distribution subclass), "Distribution" (the   *)
(* Distribution class itself) or "subclass" (a proper subclass, cls its    *)
(* __name__).  A class of the module is [name, bases, handwritten, doc].   *)
(***************************************************************************)
HandWrittenNames ==
    <<"Beta", "Binomial", "Categorical", "Dirichlet", "Gamma", "Geometric",
      "LogNormal", "MultivariateNormal", "Normal", "Independent", "Uniform">>

Range(f) == {f[x] : x \in DOMAIN f}

Mixin == "TorchDistributionMixin"

\* class X(torch.distributions.X, TorchDistributionMixin)
HandWritten(name) ==
    [name |-> name, bases |-> <<name, Mixin>>, handwritten |-> TRUE, doc |-> "none"]

\* type(_name, (_Dist, TorchDistributionMixin), {})
Synthesized(name, cls) ==
    [name |-> name, bases |-> <<cls, Mixin>>, handwritten |-> FALSE, doc |-> "none"]

\* locals() when the loop starts, as far as classes go; the other names the
\* module binds (math, torch, constraints, ...) name no class of the catalog
ModuleClasses == [n \in Range(HandWrittenNames) |-> HandWritten(n)]

KeyError == [name |-> "KeyError"]

\* a faulty variant of LookupLocal: the lookup never finds the hand-written class
LookupLocalMisses(ns, name) == KeyError

\* locals()[_name]
LookupLocal(ns, name) == IF name \in DOMAIN ns THEN ns[name] ELSE KeyError

\* the three tests that end an iteration with continue
Skipped(entry) ==
    \/ entry.kind = "other"
    \/ entry.kind = "type"
    \/ entry.kind = "Distribution"

\* _PyroDist.__doc__ = ... .format(_Dist.__module__, _Dist.__name__)
WithDoc(class, cls) == [class EXCEPT !.doc = cls]

SkipEntry ==
    /\ pc < Len(catalog)
    /\ Skipped(catalog[pc + 1])
    /\ pc' = pc + 1
    /\ UNCHANGED <<catalog, namespace, all>>
    /\ UNCHANGED nonRegVars

RegisterExisting ==
    /\ pc < Len(catalog)
    /\ ~Skipped(catalog[pc + 1])
    /\ LET entry == catalog[pc + 1]
           found == LookupLocal(namespace, entry.name)
       IN  /\ found # KeyError
           /\ namespace' = [namespace EXCEPT ![entry.name] = WithDoc(found, entry.cls)]
           /\ all' = Append(all, entry.name)
    /\ pc' = pc + 1
    /\ UNCHANGED catalog
    /\ UNCHANGED nonRegVars

RegisterSynthesized ==
    /\ pc < Len(catalog)
    /\ ~Skipped(catalog[pc + 1])
    /\ LET entry == catalog[pc + 1]
           found == LookupLocal(namespace, entry.name)
       IN  /\ found = KeyError
           /\ namespace' = (entry.name :> WithDoc(Synthesized(entry.name, entry.cls),
                                                  entry.cls)) @@ namespace
           /\ all' = Append(all, entry.name)
    /\ pc' = pc + 1
    /\ UNCHANGED catalog
    /\ UNCHANGED nonRegVars

Entry(name, kind, cls) == [name |-> name, kind |-> kind, cls |-> cls]

\* the entries every catalog has: the module names them when it is loaded
CoreCatalog ==
    <<Entry("Distribution", "Distribution", "Distribution")>>
        \o [k \in DOMAIN HandWrittenNames |->
                Entry(HandWrittenNames[k], "subclass", HandWrittenNames[k])]

ExtraNames ==
    SubSeq(<<"Bernoulli", "Poisson", "Transform", "kl_divergence", "Cauchy">>, 1, MaxExtra)

\* what an extra name may be bound to; "alias" is a second name of the class Beta
ExtraKinds == {"absent", "other", "type", "Distribution", "subclass", "alias"}

ExtraEntry(name, kind) ==
    IF kind = "alias" THEN Entry(name, "subclass", "Beta")
    ELSE IF kind = "subclass" THEN Entry(name, "subclass", name)
    ELSE Entry(name, kind, "none")

RECURSIVE ExtraCatalog(_, _)
ExtraCatalog(kinds, k) ==
    IF k = 0 THEN <<>>
    ELSE ExtraCatalog(kinds, k - 1) \o
             (IF kinds[k] = "absent" THEN <<>>
              ELSE <<ExtraEntry(ExtraNames[k], kinds[k])>>)

RegInit ==
    /\ \E kinds \in [1..MaxExtra -> ExtraKinds], front \in BOOLEAN :
           catalog = IF front THEN ExtraCatalog(kinds, MaxExtra) \o CoreCatalog
                     ELSE CoreCatalog \o ExtraCatalog(kinds, MaxExtra)
    /\ pc = 0
    /\ namespace = ModuleClasses
    /\ all = <<>>
    /\ CatInit /\ BinIdle /\ ConjIdle /\ ObjIdle

RegNext == SkipEntry \/ RegisterExisting \/ RegisterSynthesized

SpecRegister == RegInit /\ [][RegNext]_vars

Count(seq, x) == Cardinality({i \in DOMAIN seq : seq[i] = x})

\* C10: when the loop is over, every catalog name bound to a proper subclass
\* of Distribution names a class of the module that inherits from the host
\* class and from the mixin and is listed once in __all__; where the module
\* has a hand-written class of that name, it is that class; every other
\* catalog name is not listed.
C10_RegistrationComplete ==
    pc = Len(catalog) =>
        \A k \in DOMAIN catalog :
            LET entry == catalog[k]
            IN  IF entry.kind = "subclass"
                THEN /\ entry.name \in DOMAIN namespace
                     /\ namespace[entry.name].name = entry.name
                     /\ entry.cls \in Range(namespace[entry.name].bases)
                     /\ Mixin \in Range(namespace[entry.name].bases)
                     /\ Count(all, entry.name) = 1
                     /\ entry.name \in Range(HandWrittenNames) =>
                            namespace[entry.name].handwritten
                ELSE entry.name \notin Range(all)

C10_Witness ==
    /\ pc = Len(catalog)
    /\ Len(catalog) = Len(CoreCatalog) + 3
    /\ \E k \in DOMAIN catalog :
           /\ catalog[k].kind = "subclass"
           /\ catalog[k].cls # catalog[k].name
           /\ ~namespace[catalog[k].name].handwritten
    /\ \E k \in DOMAIN catalog : catalog[k].kind = "type"
    /\ \E k \in DOMAIN catalog :
           catalog[k].kind = "Distribution" /\ catalog[k].name # "Distribution"
    /\ namespace["Beta"].handwritten
    /\ namespace["Beta"].doc = "Beta"

====
